---- MODULE Spec2Model ----
(***************************************************************************)
(* The WebSocket relay of src/server.js: the connection/room registry      *)
(* (clientRoom, clientProfile, wss.clients), the message router            *)
(* (ws.on('message')), the close handler, broadcast() and the liveness     *)
(* sweep.  Every handler is an async function on one event loop: it runs   *)
(* synchronously up to its first await (a MongoDB call), is suspended      *)
(* there, and is resumed when the call settles.  A suspended handler is a  *)
(* record in `tasks`.                                                      *)
(***************************************************************************)
EXTENDS Integers, Sequences, FiniteSets, TLC

\* ---- bounds of the model ----
NumConns == 3        \* connection identities
MaxAccepted == 2     \* connections accepted in one run
MaxFrames == 2       \* inbound frames processed in one run
MaxFaults == 1       \* connections whose send() starts to throw

Conns == 1..NumConns

\* ---- JavaScript values ----
U == "<undefined>"          \* the value undefined (an absent field, an absent map entry)
NonString == "<number>"     \* a JSON value that is not a string
Rooms == {"a", "b"}
RoomVals == Rooms \cup {U}

\* readyState of a ws connection; a connection not yet accepted is CONNECTING
CONNECTING == 0
OPEN == 1
CLOSING == 2
CLOSED == 3

\* if(x) on the values the model uses: undefined and '' are falsy
Truthy(x) == x \notin {U, ""}

\* the origin of a connection (req.socket.remoteAddress): two origins, so that
\* with three connections two of them share a profile
clientIp(c) == IF c % 2 = 1 THEN "ip1" ELSE "ip2"

\* sha256 of ip + '::' + salt, as an injective tagging of the ip
hashIp(ip) == "sha256(" \o ip \o "::salt)"

ipHashOf(c) == hashIp(clientIp(c))

\* ---- inbound frames: the result of data.toString() ----
\* kind "nonjson": JSON.parse throws.  kind "null": the JSON text null.
\* kind "prim": a JSON number, string or boolean (every property undefined).
\* kind "obj": an object with the given properties (U = property absent).
Frame(k, t, r, p, ty) == [kind |-> k, type |-> t, room |-> r, payload |-> p, typing |-> ty]

Frames ==
    {Frame("nonjson", U, U, U, U), Frame("null", U, U, U, U), Frame("prim", U, U, U, U)}
    \cup {Frame("obj", "join", r, U, U) : r \in RoomVals}
    \cup {Frame("obj", "typing", r, U, "yes") : r \in RoomVals}
    \cup {Frame("obj", "typing", "a", U, U)}
    \cup {Frame("obj", "message", "a", p, U) : p \in {"p", NonString}}
    \cup {Frame("obj", U, "a", "q", U)}
    \cup {Frame("obj", "other", "a", "p", U)}

\* ---- outbound events: the argument of JSON.stringify (U = key omitted) ----
Event(t, r, h, p, ts, ty) ==
    [type |-> t, room |-> r, ipHash |-> h, payload |-> p, timestamp |-> ts, typing |-> ty]

\* JSON.stringify of a Date is a string
StampOf(t) == "T" \o ToString(t)

VARIABLES
    clients,      \* wss.clients: the accepted connections, in insertion order
    readyState,   \* ws.readyState of each connection
    clientRoom,   \* the WeakMap clientRoom (U = no entry)
    isAlive,      \* ws.isAlive
    faulty,       \* connections on which send() throws
    tasks,        \* handlers suspended at an await of a MongoDB call
    dbOnline,     \* the field online of the collection profiles, by ipHash
    prevRoom,     \* the entry of clientRoom that the connection's last join replaced
    lastB,        \* the call of broadcast() made by the step that led here (n = 0: none)
    crashed,      \* the process has exited on an unhandled rejection
    nFrames,      \* inbound frames processed so far; it also stands for new Date()
    missed,       \* sweeps that found the connection open since its last pong (or since it connected)
    outbox        \* what send() has put on the outbound path of each observed connection, in order

vars == <<clients, readyState, clientRoom, isAlive, faulty, tasks, dbOnline, prevRoom,
          lastB, crashed, nFrames, missed, outbox>>

Hashes == {ipHashOf(c) : c \in Conns}

NoBroadcast ==
    [n |-> 0, kind |-> U, by |-> 0, room |-> U, msg |-> Event(U, U, U, U, U, U),
     sent |-> {}, threw |-> FALSE, db |-> U]

Init ==
    /\ clients = <<>>
    /\ readyState = [c \in Conns |-> CONNECTING]
    /\ clientRoom = [c \in Conns |-> U]
    /\ isAlive = [c \in Conns |-> FALSE]
    /\ faulty = {}
    /\ tasks = {}
    /\ dbOnline = [h \in Hashes |-> U]
    /\ prevRoom = [c \in Conns |-> U]
    /\ lastB = NoBroadcast
    /\ crashed = FALSE
    /\ nFrames = 0
    /\ missed = [c \in Conns |-> 0]
    /\ outbox = [c \in {} |-> <<>>]

\* ---- broadcast(room, msg), src/server.js:222-228 ----
\* the loop of broadcast() without the test r === room
RECURSIVE FanoutAnyRoom(_, _)
FanoutAnyRoom(cs, room) ==
    IF cs = <<>> THEN [sent |-> {}, threw |-> FALSE]
    ELSE LET c == Head(cs) IN
         IF readyState[c] # OPEN THEN FanoutAnyRoom(Tail(cs), room)
         ELSE IF c \in faulty THEN [sent |-> {}, threw |-> TRUE]
         ELSE LET rest == FanoutAnyRoom(Tail(cs), room)
              IN  [sent |-> rest.sent \cup {c}, threw |-> rest.threw]

\* the loop of broadcast() without the test c.readyState !== 1
RECURSIVE FanoutNotOpen(_, _)
FanoutNotOpen(cs, room) ==
    IF cs = <<>> THEN [sent |-> {}, threw |-> FALSE]
    ELSE LET c == Head(cs) IN
         IF clientRoom[c] # room THEN FanoutNotOpen(Tail(cs), room)
         ELSE IF c \in faulty THEN [sent |-> {}, threw |-> TRUE]
         ELSE LET rest == FanoutNotOpen(Tail(cs), room)
              IN  [sent |-> rest.sent \cup {c}, threw |-> rest.threw]

\* wss.clients.forEach in insertion order: what the loop sends to, and whether it
\* ends by an exception.  An exception thrown by c.send leaves forEach, so the
\* clients after c are not visited (those before c have been sent to).
RECURSIVE Fanout(_, _)
Fanout(cs, room) ==
    IF cs = <<>> THEN [sent |-> {}, threw |-> FALSE]
    ELSE LET c == Head(cs) IN
         IF readyState[c] # OPEN THEN Fanout(Tail(cs), room)
         ELSE IF clientRoom[c] # room THEN Fanout(Tail(cs), room)
         ELSE IF c \in faulty THEN [sent |-> {}, threw |-> TRUE]
         ELSE LET rest == Fanout(Tail(cs), room)
              IN  [sent |-> rest.sent \cup {c}, threw |-> rest.threw]

\* The calls of broadcast() that have sent something to an observed connection are
\* numbered in the order they were made.
Serials == UNION {{outbox[c][i].n : i \in 1..Len(outbox[c])} : c \in DOMAIN outbox}

NextSerial == IF Serials = {} THEN 1 ELSE 1 + CHOOSE n \in Serials : \A m \in Serials : m <= n

\* a send that puts its frame ahead of the frames already sent
DeliverAhead(q, e) == <<e>> \o q

\* c.send(msg), src/server.js:226: the frame goes out behind the frames already sent
Deliver(q, e) == Append(q, e)

\* The effect of one call of broadcast made by handler `kind` of connection `by`;
\* db is the outcome of the MongoDB call the handler awaited before it (U: none).
\* An exception leaves the async handler as a rejected promise nobody handles:
\* Node either only warns (before 15) or ends the process (15 and later).
broadcast(room, msg, kind, by, db) ==
    LET r == Fanout(clients, room)
        e == [n |-> NextSerial, kind |-> kind, by |-> by, msg |-> msg]
    IN
    /\ lastB' = [n |-> 1, kind |-> kind, by |-> by, room |-> room, msg |-> msg,
                 sent |-> r.sent, threw |-> r.threw, db |-> db]
    /\ crashed' \in (IF r.threw THEN BOOLEAN ELSE {FALSE})
    /\ outbox' = [c \in DOMAIN outbox |->
                    IF c \in r.sent THEN Deliver(outbox[c], e) ELSE outbox[c]]

\* A step in which broadcast() is not called
Quiet == lastB' = NoBroadcast /\ UNCHANGED outbox

\* ---- wss.on('connection'), src/server.js:152-161 ----
\* Connections are numbered in the order they are accepted.
Accepted == {c \in Conns : readyState[c] # CONNECTING}

Connect(c) ==
    /\ ~crashed
    /\ readyState[c] = CONNECTING
    /\ Cardinality(Accepted) < MaxAccepted
    /\ c = Cardinality(Accepted) + 1
    /\ clients' = Append(clients, c)
    /\ readyState' = [readyState EXCEPT ![c] = OPEN]
    /\ isAlive' = [isAlive EXCEPT ![c] = TRUE]
    /\ Quiet
    /\ UNCHANGED <<clientRoom, faulty, tasks, dbOnline, prevRoom, crashed, nFrames,
                   missed>>

\* ws.on('pong'), src/server.js:161 (a pong while isAlive is true changes nothing)
Pong(c) ==
    /\ ~crashed
    /\ readyState[c] = OPEN
    /\ missed[c] > 0
    /\ isAlive' = [isAlive EXCEPT ![c] = TRUE]
    /\ missed' = [missed EXCEPT ![c] = 0]
    /\ Quiet
    /\ UNCHANGED <<clients, readyState, clientRoom, faulty, tasks, dbOnline, prevRoom,
                   crashed, nFrames>>

\* ---- ws.on('message'), src/server.js:163-203 ----
\* A handler suspended at its await; `at` tells apart two handlers started by equal frames.
Task(k, c, r, p, ts, at) ==
    [kind |-> k, conn |-> c, room |-> r, payload |-> p, ts |-> ts, at |-> at]

\* the type of the frame as it is, with no default
TypeAsSent(f) == f.type

\* const type = obj.type || 'message'
TypeOf(f) == IF Truthy(f.type) THEN f.type ELSE "message"

\* !!obj.typing
Bool(x) == IF Truthy(x) THEN "true" ELSE "false"

\* JSON.parse threw: return
OnUnparsable(c, f) ==
    /\ f.kind = "nonjson"
    /\ Quiet
    /\ UNCHANGED <<clientRoom, prevRoom, tasks, crashed>>

\* obj is null: obj.type throws a TypeError inside the async handler, a rejected
\* promise nobody handles
OnNull(c, f) ==
    /\ f.kind = "null"
    /\ crashed' \in BOOLEAN
    /\ Quiet
    /\ UNCHANGED <<clientRoom, prevRoom, tasks>>

\* type === 'join': record the room, then await profiles.updateOne
OnJoin(c, f) ==
    /\ f.kind \in {"prim", "obj"}
    /\ TypeOf(f) = "join"
    /\ clientRoom' = [clientRoom EXCEPT ![c] = f.room]
    /\ prevRoom' = [prevRoom EXCEPT ![c] = clientRoom[c]]
    /\ tasks' = tasks \cup {Task("join", c, f.room, U, U, nFrames)}
    /\ Quiet
    /\ UNCHANGED crashed

\* a typing branch that also records the room of the frame, as the relay of
\* src/unnamed/part_000 does for every frame
OnTypingRecords(c, f) ==
    /\ f.kind \in {"prim", "obj"}
    /\ TypeOf(f) = "typing"
    /\ clientRoom' = [clientRoom EXCEPT ![c] = f.room]
    /\ broadcast(f.room, Event("typing", f.room, ipHashOf(c), U, U, Bool(f.typing)),
                 "typing", c, U)
    /\ UNCHANGED <<prevRoom, tasks>>

\* type === 'typing': broadcast at once
OnTyping(c, f) ==
    /\ f.kind \in {"prim", "obj"}
    /\ TypeOf(f) = "typing"
    /\ broadcast(f.room, Event("typing", f.room, ipHashOf(c), U, U, Bool(f.typing)),
                 "typing", c, U)
    /\ UNCHANGED <<clientRoom, prevRoom, tasks>>

\* type === 'message': stamp, then await messages.insertOne
OnMessage(c, f) ==
    /\ f.kind \in {"prim", "obj"}
    /\ TypeOf(f) = "message"
    /\ tasks' = tasks \cup {Task("message", c, f.room, f.payload, StampOf(nFrames), nFrames)}
    /\ Quiet
    /\ UNCHANGED <<clientRoom, prevRoom, crashed>>

\* any other type: no branch is taken
OnOther(c, f) ==
    /\ f.kind \in {"prim", "obj"}
    /\ TypeOf(f) \notin {"join", "typing", "message"}
    /\ Quiet
    /\ UNCHANGED <<clientRoom, prevRoom, tasks, crashed>>

Handle(c, f) ==
    \/ OnUnparsable(c, f)
    \/ OnNull(c, f)
    \/ OnJoin(c, f)
    \/ OnTyping(c, f)
    \/ OnMessage(c, f)
    \/ OnOther(c, f)

RecvFrame(c, f) ==
    /\ ~crashed
    /\ readyState[c] = OPEN
    /\ nFrames < MaxFrames
    /\ nFrames' = nFrames + 1
    /\ Handle(c, f)
    /\ UNCHANGED <<clients, readyState, isAlive, faulty, dbOnline, missed>>

\* ---- the continuation of a handler after its await ----
Outcome(ok) == IF ok THEN "ok" ELSE "failed"

\* join, src/server.js:173-182: the rejection is swallowed, then the presence broadcast
ResumeJoin(t, ok) ==
    /\ t.kind = "join"
    /\ dbOnline' = IF ok THEN [dbOnline EXCEPT ![ipHashOf(t.conn)] = "true"] ELSE dbOnline
    /\ broadcast(t.room, Event("presence", t.room, ipHashOf(t.conn), U, U, U),
                 "join", t.conn, Outcome(ok))

\* a message handler that relays only what it could store
ResumeMessageGated(t, ok) ==
    /\ t.kind = "message"
    /\ IF ok
       THEN broadcast(t.room, Event("message", t.room, U, t.payload, t.ts, U),
                      "message", t.conn, Outcome(ok))
       ELSE Quiet /\ UNCHANGED crashed
    /\ UNCHANGED dbOnline

\* message, src/server.js:196-201: the rejection is logged, then the broadcast.
\* The document insertOne stores is the task's room, payload and ts; the relay
\* never reads the collection back, so it is not part of the state.
ResumeMessage(t, ok) ==
    /\ t.kind = "message"
    /\ broadcast(t.room, Event("message", t.room, U, t.payload, t.ts, U),
                 "message", t.conn, Outcome(ok))
    /\ UNCHANGED dbOnline

\* close, src/server.js:210-217: updateOne without upsert, then if(room) broadcast
ResumeClose(t, ok) ==
    /\ t.kind = "close"
    /\ dbOnline' = IF ok /\ dbOnline[ipHashOf(t.conn)] # U
                   THEN [dbOnline EXCEPT ![ipHashOf(t.conn)] = "false"] ELSE dbOnline
    /\ IF Truthy(t.room)
       THEN broadcast(t.room, Event("presence", t.room, ipHashOf(t.conn), U, U, U),
                      "close", t.conn, Outcome(ok))
       ELSE Quiet /\ UNCHANGED crashed

Resume(t, ok) ==
    \/ ResumeJoin(t, ok)
    \/ ResumeMessage(t, ok)
    \/ ResumeClose(t, ok)

\* A MongoDB call settles (ok: it resolved; ~ok: it rejected) and its handler runs on.
Settle(t, ok) ==
    /\ ~crashed
    /\ t \in tasks
    /\ tasks' = tasks \ {t}
    /\ Resume(t, ok)
    /\ UNCHANGED <<clients, readyState, clientRoom, prevRoom, isAlive, faulty, nFrames,
                   missed>>

\* ---- the transport ----
\* The peer closes, or its socket ends: the connection leaves OPEN.
PeerClose(c) ==
    /\ ~crashed
    /\ readyState[c] = OPEN
    /\ readyState' = [readyState EXCEPT ![c] = CLOSING]
    /\ Quiet
    /\ UNCHANGED <<clients, clientRoom, prevRoom, isAlive, faulty, tasks, dbOnline, crashed,
                   nFrames, missed>>

Without(cs, c) == SelectSeq(cs, LAMBDA x : x # c)

\* ws.on('close'), src/server.js:205-209: the connection has left wss.clients; the
\* handler reads room and profile and awaits profiles.updateOne.  clientRoom keeps
\* its entry.  The sweep and send() never see the ws object again, so its liveness
\* flag and its send fault leave the state.
CloseEvent(c) ==
    /\ ~crashed
    /\ readyState[c] = CLOSING
    /\ readyState' = [readyState EXCEPT ![c] = CLOSED]
    /\ clients' = Without(clients, c)
    /\ tasks' = tasks \cup {Task("close", c, clientRoom[c], U, U, 0)}
    /\ isAlive' = [isAlive EXCEPT ![c] = FALSE]
    /\ missed' = [missed EXCEPT ![c] = 0]
    /\ faulty' = faulty \ {c}
    /\ Quiet
    /\ UNCHANGED <<clientRoom, prevRoom, dbOnline, crashed, nFrames>>

\* send() on this connection throws from now on
SendFault(c) ==
    /\ ~crashed
    /\ readyState[c] = OPEN
    /\ c \notin faulty
    /\ Cardinality(faulty) < MaxFaults
    /\ faulty' = faulty \cup {c}
    /\ Quiet
    /\ UNCHANGED <<clients, readyState, clientRoom, prevRoom, isAlive, tasks, dbOnline,
                   crashed, nFrames, missed>>

\* ---- the liveness sweep, src/server.js:230-236 ----
InClients(c) == \E i \in 1..Len(clients) : clients[i] = c

\* a sweep that terminates whatever it finds
TerminatesAny(c) == InClients(c)

\* if(!ws.isAlive) return ws.terminate()
Terminates(c) == InClients(c) /\ ~isAlive[c]

\* the sweep without ws.isAlive = false
ProbesKeepFlag(c) == FALSE

\* ws.isAlive = false; ws.ping()
Probes(c) == InClients(c) /\ isAlive[c]

Sweep ==
    /\ ~crashed
    /\ readyState' = [c \in Conns |->
                        IF Terminates(c) /\ readyState[c] = OPEN THEN CLOSING
                        ELSE readyState[c]]
    /\ isAlive' = [c \in Conns |-> IF Probes(c) THEN FALSE ELSE isAlive[c]]
    /\ missed' = [c \in Conns |->
                    IF InClients(c) /\ readyState[c] = OPEN THEN missed[c] + 1 ELSE missed[c]]
    /\ Quiet
    /\ UNCHANGED <<clients, clientRoom, prevRoom, faulty, tasks, dbOnline, crashed, nFrames>>

Next ==
    \/ \E c \in Conns : Connect(c)
    \/ \E c \in Conns : Pong(c)
    \/ \E c \in Conns, f \in Frames : RecvFrame(c, f)
    \/ \E t \in tasks, ok \in BOOLEAN : Settle(t, ok)
    \/ \E c \in Conns : PeerClose(c)
    \/ \E c \in Conns : CloseEvent(c)
    \/ \E c \in Conns : SendFault(c)
    \/ Sweep

Spec == Init /\ [][Next]_vars

\* A later moment of the same server: every connection has been accepted, has joined
\* room "a", and its join has run to its end with the profile marked online.
InitRoom ==
    /\ clients = [i \in 1..NumConns |-> i]
    /\ readyState = [c \in Conns |-> OPEN]
    /\ clientRoom = [c \in Conns |-> "a"]
    /\ isAlive = [c \in Conns |-> TRUE]
    /\ faulty = {}
    /\ tasks = {}
    /\ dbOnline = [h \in Hashes |-> "true"]
    /\ prevRoom = [c \in Conns |-> U]
    /\ lastB = NoBroadcast
    /\ crashed = FALSE
    /\ nFrames = 0
    /\ missed = [c \in Conns |-> 0]
    /\ outbox = [c \in {} |-> <<>>]

\* From there: frames, completions, closes and send faults (no sweep is due yet).
NextRoom ==
    \/ \E c \in Conns, f \in Frames : RecvFrame(c, f)
    \/ \E t \in tasks, ok \in BOOLEAN : Settle(t, ok)
    \/ \E c \in Conns : PeerClose(c)
    \/ \E c \in Conns : CloseEvent(c)
    \/ \E c \in Conns : SendFault(c)

SpecRoom == InitRoom /\ [][NextRoom]_vars

\* The same moment, with the outbound path of every connection observed.
InitOrder ==
    /\ clients = [i \in 1..NumConns |-> i]
    /\ readyState = [c \in Conns |-> OPEN]
    /\ clientRoom = [c \in Conns |-> "a"]
    /\ isAlive = [c \in Conns |-> TRUE]
    /\ faulty = {}
    /\ tasks = {}
    /\ dbOnline = [h \in Hashes |-> "true"]
    /\ prevRoom = [c \in Conns |-> U]
    /\ lastB = NoBroadcast
    /\ crashed = FALSE
    /\ nFrames = 0
    /\ missed = [c \in Conns |-> 0]
    /\ outbox = [c \in Conns |-> <<>>]

\* From there: frames, completions and send faults, every connection staying open.
NextOrder ==
    \/ \E c \in Conns, f \in Frames : RecvFrame(c, f)
    \/ \E t \in tasks, ok \in BOOLEAN : Settle(t, ok)
    \/ \E c \in Conns : SendFault(c)

SpecOrder == InitOrder /\ [][NextOrder]_vars

\* ======================= the claims =======================
\* broadcast() was called by the step that led to this state.  That step changes
\* neither readyState nor clientRoom, so both are as broadcast() saw them.
Called == lastB.n = 1

\* the connections open and registered to the room when broadcast() ran
Members(room) == {c \in Conns : readyState[c] = OPEN /\ clientRoom[c] = room}

\* typeof x === 'string'
IsString(x) == x \notin {U, NonString}

\* the frames src/unnamed/part_000:24 lets through
WellFormed(f) == f.kind = "obj" /\ IsString(f.room) /\ IsString(f.payload)

\* C1: a broadcast addressed to room R is sent only to connections whose recorded
\* room at that moment is R, never to a connection registered to another room.
RoomIsolation ==
    Called => \A c \in Conns :
        /\ c \in lastB.sent => clientRoom[c] = lastB.room /\ readyState[c] = OPEN
        /\ clientRoom[c] # lastB.room => c \notin lastB.sent

\* C1 witness: a broadcast reaches a member of its room while another open
\* connection is registered to a different room.
RoomIsolationWitness ==
    /\ Called
    /\ lastB.room \in Rooms
    /\ lastB.sent # {}
    /\ \E c \in Conns : readyState[c] = OPEN /\ clientRoom[c] \in Rooms \ {lastB.room}

\* C2 (as claimed): a well-formed message is delivered to exactly the connections
\* open and registered to its room when it is broadcast (a connection whose own
\* send fails aside).
MessageDelivery ==
    (Called /\ lastB.kind = "message" /\ IsString(lastB.room) /\ IsString(lastB.msg.payload))
        => /\ lastB.sent \subseteq Members(lastB.room)
           /\ Members(lastB.room) \ faulty \subseteq lastB.sent

\* C3 (as claimed): once a connection has moved from room1 to room2, no broadcast
\* to room1 reaches it and every broadcast to room2 does, while it stays open.
RoomSwitch ==
    Called => \A c \in Conns :
        (/\ readyState[c] = OPEN
         /\ c \notin faulty
         /\ prevRoom[c] \in Rooms
         /\ clientRoom[c] \in Rooms
         /\ prevRoom[c] # clientRoom[c])
        => /\ lastB.room = prevRoom[c] => c \notin lastB.sent
           /\ lastB.room = clientRoom[c] => c \in lastB.sent

\* C4 (as claimed): a malformed frame causes no persistence call and no broadcast:
\* every suspended message handler and every message broadcast comes from a frame
\* with a string room and a string payload, and no join erases a recorded room.
MalformedDropped ==
    /\ \A t \in tasks : t.kind = "message"
           => WellFormed(Frame("obj", "message", t.room, t.payload, U))
    /\ \A t \in tasks : t.kind = "join" => IsString(t.room)
    /\ Called /\ lastB.kind # "close" => IsString(lastB.room)
    /\ \A c \in Conns : prevRoom[c] # U => clientRoom[c] # U

BroadcastAtReceipt ==
    \A t \in tasks : t.kind # "message"

\* C7 (as claimed): when the append of a message rejects, the message is still
\* delivered to every open connection registered to its room.
DeliveredDespiteFailure ==
    (Called /\ lastB.kind = "message" /\ lastB.db = "failed" /\ IsString(lastB.room))
        => Members(lastB.room) \ faulty \subseteq lastB.sent

\* C8 (as claimed): a send that fails on one connection does not keep the
\* broadcast from any other open connection registered to the room.
FanoutContained ==
    (Called /\ lastB.threw /\ IsString(lastB.room))
        => Members(lastB.room) \ faulty \subseteq lastB.sent

\* C9 (as claimed): the presence event of a closed connection that had a room
\* carries its profile hash and reaches every connection still open in that room.
DeparturePresence ==
    (Called /\ lastB.kind = "close")
        => /\ lastB.msg = Event("presence", lastB.room, ipHashOf(lastB.by), U, U, U)
           /\ Members(lastB.room) \ faulty \subseteq lastB.sent

\* C10 (as claimed): no frame, persistence failure, delivery failure or
\* termination ends the process.
NeverFatal == ~crashed

JoinPresence ==
    (Called /\ lastB.kind = "join" /\ IsString(lastB.room))
        => /\ lastB.db \in {"ok", "failed"}
           /\ lastB.msg = Event("presence", lastB.room, ipHashOf(lastB.by), U, U, U)
           /\ Members(lastB.room) \ faulty \subseteq lastB.sent

TypingEphemeral ==
    [][ (lastB'.n = 1 /\ lastB'.kind = "typing")
        => /\ lastB'.msg.typing \in {"true", "false"}
           /\ lastB'.msg = Event("typing", lastB'.room, ipHashOf(lastB'.by), U, U,
                                 lastB'.msg.typing)
           /\ lastB'.sent \subseteq Members(lastB'.room)
           /\ clientRoom' = clientRoom
           /\ tasks' = tasks
           /\ dbOnline' = dbOnline ]_vars

\* C14 witness: a typing frame without a typing field has been relayed, as
\* typing: false, to a member of its room while a MongoDB call is in flight.
TypingEphemeralWitness ==
    /\ Called
    /\ lastB.kind = "typing"
    /\ lastB.room \in Rooms
    /\ lastB.msg.typing = "false"
    /\ lastB.sent # {}
    /\ tasks # {}

\* C15: a sweep terminates a connection only if an earlier sweep probed it and no
\* pong has come since: a connection that answered its last probe, or that no
\* sweep has met since it was accepted, is left open by the sweep.
ResponsiveKept ==
    [][ \A c \in Conns :
          (readyState[c] = OPEN /\ readyState'[c] = CLOSING /\ missed'[c] = missed[c] + 1)
              => missed[c] >= 1 /\ ~isAlive[c] ]_vars

\* C15 witness: connection 1, accepted first, is open with its last probe answered
\* after the two sweeps that ended by terminating the silent connection 2.
ResponsiveKeptWitness ==
    /\ readyState[1] = OPEN
    /\ isAlive[1]
    /\ missed[1] = 0
    /\ readyState[2] = CLOSING
    /\ missed[2] = 2

\* the frames the message branch takes
IsMessageFrame(f) == f.kind \in {"prim", "obj"} /\ TypeOf(f) = "message"

\* C16: the step that receives a message frame submits one append, of the frame's
\* room and payload and the timestamp of the receipt; when that append settles,
\* either way, the same step makes one call of broadcast with the same room,
\* payload and timestamp and submits nothing again; and a message is broadcast by
\* no other step.
OneAppendOneBroadcast ==
    [][ /\ \A c \in Conns, f \in Frames :
              (IsMessageFrame(f) /\ RecvFrame(c, f))
                  => LET a == Task("message", c, f.room, f.payload, StampOf(nFrames), nFrames)
                     IN  a \notin tasks /\ tasks' = tasks \cup {a}
        /\ \A t \in tasks \ tasks' :
              t.kind = "message"
                  => /\ lastB'.n = 1
                     /\ lastB'.kind = "message"
                     /\ lastB'.by = t.conn
                     /\ lastB'.room = t.room
                     /\ lastB'.msg = Event("message", t.room, U, t.payload, t.ts, U)
                     /\ tasks' = tasks \ {t}
        /\ (lastB'.n = 1 /\ lastB'.kind = "message")
              => \E t \in tasks \ tasks' : t.kind = "message" ]_vars

\* C16 witness: a message whose append was rejected has been broadcast to a member
\* of its room, and no append is in flight any more.
OneAppendOneBroadcastWitness ==
    /\ Called
    /\ lastB.kind = "message"
    /\ lastB.db = "failed"
    /\ lastB.room \in Rooms
    /\ lastB.msg.payload = "p"
    /\ lastB.sent # {}
    /\ \A t \in tasks : t.kind # "message"

\* the frame {"room":"a","payload":"q"}: the one frame without a type that has a
\* room and a payload, and the only one with that payload
Untyped == Frame("obj", U, "a", "q", U)

\* the same frame with "type":"message"
Typed(f) == [f EXCEPT !.type = "message"]

\* C17: a step receives the frame without a type exactly when it is the step that
\* receives the same frame typed "message"; and its payload is broadcast, once its
\* append has settled, as a message to the room it names, to members of that room
\* only, whatever room its sender is recorded in.
UntypedIsMessage ==
    [][ /\ \A c \in Conns : RecvFrame(c, Untyped) <=> RecvFrame(c, Typed(Untyped))
        /\ \A c \in Conns : RecvFrame(c, Untyped)
              => \E t \in tasks' \ tasks :
                     t = Task("message", c, Untyped.room, Untyped.payload, t.ts, t.at)
        /\ (lastB'.n = 1 /\ lastB'.msg.payload = Untyped.payload)
              => /\ lastB'.kind = "message"
                 /\ lastB'.room = Untyped.room
                 /\ lastB'.msg = Event("message", Untyped.room, U, Untyped.payload,
                                       lastB'.msg.timestamp, U)
                 /\ lastB'.sent \subseteq Members(Untyped.room)
                 /\ \E t \in tasks \ tasks' : t.kind = "message" /\ t.conn = lastB'.by ]_vars

\* C17 witness: the frame without a type, sent by a connection that never joined
\* a room, has been broadcast to a member of the room it names.
UntypedIsMessageWitness ==
    /\ Called
    /\ lastB.msg.payload = Untyped.payload
    /\ clientRoom[lastB.by] = U
    /\ prevRoom[lastB.by] = U
    /\ lastB.by \notin lastB.sent
    /\ lastB.sent # {}

\* C18 (as claimed): the online: true of a join is never written over the
\* online: false of the close of the same connection: no step in which the profile
\* update of a join succeeds starts with the connection closed, its close update
\* settled and the profile stored as offline (no other connection having the
\* same profile).
OfflineAfterClose ==
    [][ \A t \in tasks \ tasks' :
          (/\ t.kind = "join"
           /\ lastB'.db = "ok"
           /\ readyState[t.conn] = CLOSED
           /\ \A u \in tasks : u.kind = "close" => u.conn # t.conn
           /\ \A d \in Conns \ {t.conn} :
                  ipHashOf(d) = ipHashOf(t.conn) => readyState[d] = CONNECTING)
              => ~(/\ dbOnline[ipHashOf(t.conn)] = "false"
                   /\ dbOnline'[ipHashOf(t.conn)] = "true") ]_vars

\* C19 (as claimed): a connection for which clientRoom holds no room is sent no
\* broadcast, whatever the room of the call, an absent room included (stated for
\* the connections other than the one whose handler makes the call).
NoRoomNoBroadcast ==
    Called => \A c \in Conns \ {lastB.by} : clientRoom[c] = U => c \notin lastB.sent

\* the frame stamped ts1 was received before the frame stamped ts2
Earlier(ts1, ts2) ==
    \E i, j \in 0..MaxFrames : i < j /\ ts1 = StampOf(i) /\ ts2 = StampOf(j)

\* C20 (as claimed): two messages of one connection for one room reach every
\* connection that is sent both in the order in which their frames were received.
SenderOrder ==
    \A c \in DOMAIN outbox : \A i, j \in 1..Len(outbox[c]) :
        (/\ i < j
         /\ outbox[c][i].kind = "message"
         /\ outbox[c][j].kind = "message"
         /\ outbox[c][i].by = outbox[c][j].by
         /\ outbox[c][i].msg.room = outbox[c][j].msg.room)
            => Earlier(outbox[c][i].msg.timestamp, outbox[c][j].msg.timestamp)

====
